---- MODULE Spec2Model ----
(***************************************************************************)
(* Model of glyphsLib/builder/custom_params.py: the translation of Glyphs  *)
(* custom parameters to UFO info/lib entries and back.                     *)
(*                                                                         *)
(* Python values are records of one shape (so that any two are comparable):*)
(*   t      the Python type ("None", "int", "bool", "str", "list")         *)
(*   n      the number of an int / bool (0 otherwise)                      *)
(*   s      the text of a str, as a sequence of tokens (<<>> otherwise)    *)
(*   items  the items of a list, themselves values (<<>> otherwise)        *)
(* Text (parameter names, lib keys, str values) is a sequence of tokens; a *)
(* token is a run of ordinary characters or one quote character, so that   *)
(* concatenation, startswith, slicing and character replacement are the    *)
(* sequence operations.                                                    *)
(***************************************************************************)
EXTENDS Integers, Sequences, FiniteSets, TLC

VARIABLES
    objs,       \* the Glyphs objects: id -> [cls, customParameters, attrs]
    ufo,        \* the UFO: [info, lib, features]
    log,        \* the calls made so far, oldest first
    prev,       \* objs and ufo as they were when the last call started
    handled,    \* _handled of the two proxies when the last call ended
    raised,     \* whether the last call ended by raising RuntimeError
    edits,      \* number of direct assignments made to the UFO
    gasp_in,    \* argument of the last to_ufo_gasp_table call (dict, in iteration order)
    gasp_out    \* its result

vars == <<objs, ufo, log, prev, handled, raised, edits, gasp_in, gasp_out>>

----------------------------------------------------------------------------
(* Bounds of the model *)

\* most custom parameters put on the objects before the first call, all together
MaxParams == 3
\* most direct assignments to the UFO before the first call
MaxUfoEdits == 2
\* most calls in one behaviour
MaxCalls == 2
\* most entries of a GASP Table dict
MaxGasp == 3
\* most calls in one behaviour where objects of two classes share one UFO
MaxKindCalls == 3

----------------------------------------------------------------------------
(* Python values *)

None == [t |-> "None", n |-> 0, s |-> <<>>, items |-> <<>>]

PyInt(n) == [t |-> "int", n |-> n, s |-> <<>>, items |-> <<>>]

PyBool(b) == [t |-> "bool", n |-> IF b THEN 1 ELSE 0, s |-> <<>>, items |-> <<>>]

PyStr(w) == [t |-> "str", n |-> 0, s |-> w, items |-> <<>>]

PyList(q) == [t |-> "list", n |-> 0, s |-> <<>>, items |-> q]

True == PyBool(TRUE)

False == PyBool(FALSE)

\* list of ints
IntList(q) == PyList([i \in 1..Len(q) |-> PyInt(q[i])])

\* bool(value)
Truthy(v) ==
    CASE v.t = "None" -> FALSE
      [] v.t \in {"int", "bool"} -> v.n # 0
      [] v.t = "str" -> v.s # <<>>
      [] OTHER -> v.items # <<>>

IsNumber(v) == v.t \in {"int", "bool"}

\* a == b on scalars (True == 1, False == 0)
ScalarEq(a, b) == IF IsNumber(a) /\ IsNumber(b) THEN a.n = b.n ELSE a = b

\* a == b
PyEq(a, b) ==
    IF a.t = "list" /\ b.t = "list"
    THEN /\ Len(a.items) = Len(b.items)
         /\ \A i \in 1..Len(a.items) : ScalarEq(a.items[i], b.items[i])
    ELSE ScalarEq(a, b)

\* value in array (array a list, or None)
PyIn(v, array) == \E i \in 1..Len(array.items) : PyEq(array.items[i], v)

----------------------------------------------------------------------------
(* Text *)

StartsWith(text, prefix) ==
    /\ Len(text) >= Len(prefix)
    /\ SubSeq(text, 1, Len(prefix)) = prefix

\* text[len(prefix):]
Strip(text, prefix) == SubSeq(text, Len(prefix) + 1, Len(text))

GLYPHS_PREFIX == <<"com.schriftgestaltung.">>

UFO2FT_FILTERS_KEY == <<"com.github.googlei18n.ufo2ft.filters">>

UFO2FT_USE_PROD_NAMES_KEY == <<"com.github.googlei18n.ufo2ft.useProductionNames">>

CUSTOM_PARAM_PREFIX == GLYPHS_PREFIX \o <<"customParameter.">>

\* the curved quotes are the tokens u2018, u2019, u201C, u201D
_normalize_custom_param_name(name) ==
    [i \in 1..Len(name) |->
        CASE name[i] \in {"u2018", "u2019"} -> "'"
          [] name[i] \in {"u201C", "u201D"} -> "\""
          [] OTHER -> name[i]]

identity(value) == value

----------------------------------------------------------------------------
(* The two data structures the code works on *)

\* a GSCustomParameter
Param(name, value) == [name |-> name, value |-> value]

\* ufo.lib is a dict; its entries are kept in insertion order
LibKeys(lib) == {lib[i].key : i \in 1..Len(lib)}

LibIndex(lib, key) == CHOOSE i \in 1..Len(lib) : lib[i].key = key

LibGet(lib, key) == lib[LibIndex(lib, key)].value

\* lib[key] = value
LibSet(lib, key, value) ==
    IF key \in LibKeys(lib)
    THEN [lib EXCEPT ![LibIndex(lib, key)].value = value]
    ELSE Append(lib, [key |-> key, value |-> value])

----------------------------------------------------------------------------
(* The state of one call: the two proxies and the objects behind them.     *)
(*   cls, params, attrs      the Glyphs object (GlyphsObjectProxy._owner)  *)
(*   lookup, ghandled        GlyphsObjectProxy._lookup and ._handled       *)
(*   info, lib, features     the UFO (UFOProxy._owner)                     *)
(*   uhandled                UFOProxy._handled                             *)
(*   err                     an exception is propagating                   *)

\* GlyphsObjectProxy.__init__ and UFOProxy.__init__
Proxies(obj, u) ==
    [cls |-> obj.cls, params |-> obj.customParameters, attrs |-> obj.attrs,
     lookup |-> obj.customParameters, ghandled |-> {},
     info |-> u.info, lib |-> u.lib, features |-> u.features, uhandled |-> {},
     err |-> FALSE]

sub_key_OfAnyClass(P) == <<"GSObject", ".">>

\* glyphs_object.__class__.__name__ + '.'
sub_key(P) == <<P.cls, ".">>

\* self._lookup[key]
LookupValues(P, key) ==
    LET hits == SelectSeq(P.lookup, LAMBDA param : param.name = key)
    IN  [i \in 1..Len(hits) |-> hits[i].value]

get_attribute_value(P, key) ==
    IF key \notin DOMAIN P.attrs THEN None ELSE P.attrs[key]

set_attribute_value(P, key, value) ==
    IF key \notin DOMAIN P.attrs THEN P ELSE [P EXCEPT !.attrs[key] = value]

get_custom_value_NoRaise(P, key) ==
    LET values == LookupValues(P, key)
        Q == [P EXCEPT !.ghandled = @ \cup {key}]
    IN  IF Len(values) > 0 THEN [p |-> Q, v |-> values[1]] ELSE [p |-> Q, v |-> None]

\* returns the proxies after the call (p) and the value returned (v)
get_custom_value(P, key) ==
    LET values == LookupValues(P, key)
        Q == [P EXCEPT !.ghandled = @ \cup {key}]
    IN  IF Len(values) > 1 THEN [p |-> [Q EXCEPT !.err = TRUE], v |-> None]
        ELSE IF Len(values) > 0 THEN [p |-> Q, v |-> values[1]]
        ELSE [p |-> Q, v |-> None]

get_custom_values(P, key) ==
    [p |-> [P EXCEPT !.ghandled = @ \cup {key}], v |-> PyList(LookupValues(P, key))]

set_custom_value(P, key, value) ==
    [P EXCEPT !.params = Append(@, Param(key, value))]

\* for value in values: a str yields its characters, a list its items
Iterate(values) ==
    IF values.t = "str" THEN [i \in 1..Len(values.s) |-> PyStr(<<values.s[i]>>)]
    ELSE values.items

set_custom_values(P, key, values) ==
    LET vs == Iterate(values)
    IN  [P EXCEPT !.params = @ \o [i \in 1..Len(vs) |-> Param(key, vs[i])]]

unhandled_custom_parameters_All(P) == P.params

unhandled_custom_parameters(P) ==
    SelectSeq(P.params, LAMBDA param : param.name \notin P.ghandled)

has_info_attr(P, name) == name \in DOMAIN P.info

get_info_value(P, name) == P.info[name]

set_info_value(P, name, value) == [P EXCEPT !.info[name] = value]

has_lib_key(P, name) == name \in LibKeys(P.lib)

get_lib_value_Pop(P, name) ==
    IF name \notin LibKeys(P.lib) THEN [p |-> P, v |-> None]
    ELSE [p |-> [P EXCEPT !.uhandled = @ \cup {name},
                          !.lib = SelectSeq(@, LAMBDA item : item.key # name)],
          v |-> LibGet(P.lib, name)]

get_lib_value(P, name) ==
    IF name \notin LibKeys(P.lib) THEN [p |-> P, v |-> None]
    ELSE [p |-> [P EXCEPT !.uhandled = @ \cup {name}], v |-> LibGet(P.lib, name)]

set_lib_value(P, name, value) == [P EXCEPT !.lib = LibSet(@, name, value)]

unhandled_lib_items(P) ==
    SelectSeq(P.lib, LAMBDA item : /\ StartsWith(item.key, CUSTOM_PARAM_PREFIX)
                                   /\ item.key \notin P.uhandled)

----------------------------------------------------------------------------
(* ParamHandler and the registry *)

\* glyphs_long_name=None
NoName == <<>>

\* ParamHandler.__init__ with every optional argument at its default
ParamHandler(glyphs_name) ==
    [cls |-> "ParamHandler",
     glyphs_name |-> glyphs_name,
     glyphs_long_name |-> NoName,
     glyphs_multivalued |-> FALSE,
     ufo_name |-> glyphs_name,
     ufo_prefix |-> CUSTOM_PARAM_PREFIX,
     ufo_info |-> TRUE,
     ufo_default |-> None,
     value_to_ufo |-> "identity",
     value_to_glyphs |-> "identity"]

\* the handlers registered from GLYPHS_UFO_CUSTOM_PARAMS
ShortLong(glyphs_name, ufo_name) ==
    [ParamHandler(glyphs_name) EXCEPT !.ufo_name = ufo_name, !.glyphs_long_name = ufo_name]

\* the value transformation functions the registered handlers are built with
Apply(fn, value) ==
    CASE fn = "identity" -> identity(value)
      [] fn = "abs" -> PyInt(IF value.n < 0 THEN -value.n ELSE value.n)
      [] fn = "not" -> PyBool(~Truthy(value))
      [] fn = "int_not" -> PyInt(IF Truthy(value) THEN 0 ELSE 1)
      [] fn = "not_bool" -> PyBool(~Truthy(value))

\* The registered handlers the model keeps, in registration order: one or
\* more of every class and of every way a ParamHandler is configured.
KNOWN_PARAM_HANDLERS ==
    << ShortLong(<<"fsType">>, <<"openTypeOS2Type">>),
       ShortLong(<<"underlinePosition">>, <<"postscriptUnderlinePosition">>),
       ShortLong(<<"underlineThickness">>, <<"postscriptUnderlineThickness">>),
       ParamHandler(<<"openTypeNameVersion">>),
       [ParamHandler(<<"versionString">>) EXCEPT !.ufo_name = <<"openTypeNameVersion">>],
       [ParamHandler(<<"postscriptFamilyBlues">>) EXCEPT !.cls = "EmptyListDefaultParamHandler"],
       [ShortLong(<<"winAscent">>, <<"openTypeOS2WinAscent">>)
            EXCEPT !.value_to_ufo = "abs", !.value_to_glyphs = "abs"],
       [ParamHandler(<<"Disable Last Change">>) EXCEPT !.ufo_name = <<"disablesLastChange">>],
       [ParamHandler(<<"Don", "'", "t use Production Names">>)
            EXCEPT !.ufo_name = UFO2FT_USE_PROD_NAMES_KEY, !.ufo_prefix = <<>>,
                   !.value_to_ufo = "not", !.value_to_glyphs = "not"],
       [ParamHandler(<<"disablesNiceNames">>)
            EXCEPT !.cls = "MiscParamHandler", !.ufo_name = <<"useNiceNames">>,
                   !.value_to_ufo = "int_not", !.value_to_glyphs = "not_bool"],
       [ParamHandler(<<"weightValue">>) EXCEPT !.cls = "MiscParamHandler", !.ufo_info = FALSE],
       [ParamHandler(<<>>) EXCEPT !.cls = "OS2SelectionParamHandler"],
       [ParamHandler(<<"glyphOrder">>) EXCEPT !.ufo_prefix = GLYPHS_PREFIX],
       [ParamHandler(<<>>) EXCEPT !.cls = "FilterParamHandler"],
       [ParamHandler(<<>>) EXCEPT !.cls = "ReplaceFeatureParamHandler"] >>

\* hasattr(ufo.info, name): the fontinfo attributes the kept handlers name
INFO_ATTRS ==
    { <<"openTypeOS2Type">>, <<"postscriptUnderlinePosition">>,
      <<"postscriptUnderlineThickness">>, <<"openTypeNameVersion">>,
      <<"postscriptFamilyBlues">>, <<"openTypeOS2WinAscent">>,
      <<"openTypeOS2Selection">> }

\* ParamHandler._read_from_glyphs and MiscParamHandler._read_from_glyphs
_read_from_glyphs(h, P) ==
    IF h.cls = "MiscParamHandler"
    THEN [p |-> P, v |-> get_attribute_value(P, h.glyphs_name)]
    ELSE
    LET small == IF h.glyphs_multivalued THEN get_custom_values(P, h.glyphs_name)
                 ELSE get_custom_value(P, h.glyphs_name)
    IN  IF small.p.err \/ small.v # None THEN small
        ELSE IF h.glyphs_long_name # NoName
        THEN IF h.glyphs_multivalued THEN get_custom_values(small.p, h.glyphs_long_name)
             ELSE get_custom_value(small.p, h.glyphs_long_name)
        ELSE [p |-> small.p, v |-> None]

\* ParamHandler._write_to_glyphs and MiscParamHandler._write_to_glyphs
_write_to_glyphs(h, P, value) ==
    IF h.cls = "MiscParamHandler" THEN set_attribute_value(P, h.glyphs_name, value)
    ELSE IF h.glyphs_multivalued THEN set_custom_values(P, h.glyphs_name, value)
    ELSE set_custom_value(P, h.glyphs_name, value)

\* the lib key of a handler that does not go to ufo.info
LibKeyOf(h, P) ==
    (IF h.ufo_prefix = CUSTOM_PARAM_PREFIX THEN h.ufo_prefix \o sub_key(P) ELSE h.ufo_prefix)
        \o h.ufo_name

_read_from_ufo(h, P) ==
    IF h.ufo_info /\ has_info_attr(P, h.ufo_name)
    THEN [p |-> P, v |-> get_info_value(P, h.ufo_name)]
    ELSE get_lib_value(P, LibKeyOf(h, P))

_write_to_ufo(h, P, value) ==
    IF h.ufo_default # None /\ PyEq(value, h.ufo_default) THEN P
    ELSE IF h.ufo_info /\ has_info_attr(P, h.ufo_name)
    THEN set_info_value(P, h.ufo_name, value)
    ELSE set_lib_value(P, LibKeyOf(h, P), value)

\* ParamHandler.to_ufo
ParamHandler_to_ufo(h, P) ==
    LET read == _read_from_glyphs(h, P)
    IN  IF read.p.err \/ read.v = None THEN read.p
        ELSE _write_to_ufo(h, read.p, Apply(h.value_to_ufo, read.v))

\* ParamHandler.to_glyphs and EmptyListDefaultParamHandler.to_glyphs
ParamHandler_to_glyphs(h, P) ==
    LET read == _read_from_ufo(h, P)
    IN  IF read.v = None THEN read.p
        ELSE IF h.cls = "EmptyListDefaultParamHandler" /\ PyEq(read.v, PyList(<<>>))
        THEN read.p
        ELSE _write_to_glyphs(h, read.p, Apply(h.value_to_glyphs, read.v))

----------------------------------------------------------------------------
(* OS2SelectionParamHandler *)

OS2Selection == <<"openTypeOS2Selection">>

\* OS2SelectionParamHandler.flags
flags ==
    << [glyphs_name |-> <<"Has WWS Names">>, value |-> PyInt(8)],
       [glyphs_name |-> <<"Use Typo Metrics">>, value |-> PyInt(7)] >>

OS2Selection_flag_to_ufo_Overwrite(flag, P) ==
    LET read == get_custom_value(P, flag.glyphs_name)
    IN  IF read.p.err \/ ~Truthy(read.v) THEN read.p
        ELSE set_info_value(read.p, OS2Selection, PyList(<<flag.value>>))

\* one turn of the loop of OS2SelectionParamHandler.to_ufo
OS2Selection_flag_to_ufo(flag, P) ==
    LET read == get_custom_value(P, flag.glyphs_name)
        Q == read.p
        selection == IF get_info_value(Q, OS2Selection) = None THEN PyList(<<>>)
                     ELSE get_info_value(Q, OS2Selection)
        appended == IF PyIn(flag.value, selection) THEN selection
                    ELSE PyList(Append(selection.items, flag.value))
    IN  IF Q.err \/ ~Truthy(read.v) THEN Q
        ELSE set_info_value(Q, OS2Selection, appended)

OS2Selection_to_ufo(P) ==
    LET P1 == OS2Selection_flag_to_ufo(flags[1], P)
    IN  IF P1.err THEN P1 ELSE OS2Selection_flag_to_ufo(flags[2], P1)

OS2Selection_flag_to_glyphs(flag, P) ==
    IF PyIn(flag.value, get_info_value(P, OS2Selection))
    THEN set_custom_value(P, flag.glyphs_name, True)
    ELSE P

OS2Selection_to_glyphs(P) ==
    IF get_info_value(P, OS2Selection) = None THEN P
    ELSE OS2Selection_flag_to_glyphs(flags[2], OS2Selection_flag_to_glyphs(flags[1], P))

----------------------------------------------------------------------------
(* FilterParamHandler.  The filter codec is outside this file: a parsed    *)
(* filter is kept as the pair of its text and its is_pre flag.             *)

parse_glyphs_filter(filter, is_pre) == PyList(<<filter, PyBool(is_pre)>>)

write_glyphs_filter(ufo_filter) ==
    [glyphs_filter |-> ufo_filter.items[1], is_pre |-> Truthy(ufo_filter.items[2])]

Filter_to_ufo(P) ==
    LET pre == get_custom_values(P, <<"PreFilter">>)
        fil == get_custom_values(pre.p, <<"Filter">>)
        ufo_filters ==
            [i \in 1..Len(pre.v.items) |-> parse_glyphs_filter(pre.v.items[i], TRUE)]
            \o [i \in 1..Len(fil.v.items) |-> parse_glyphs_filter(fil.v.items[i], FALSE)]
        Q == IF has_lib_key(fil.p, UFO2FT_FILTERS_KEY) THEN fil.p
             ELSE set_lib_value(fil.p, UFO2FT_FILTERS_KEY, PyList(<<>>))
        existing == get_lib_value(Q, UFO2FT_FILTERS_KEY)
    IN  IF ufo_filters = <<>> THEN fil.p
        ELSE set_lib_value(existing.p, UFO2FT_FILTERS_KEY,
                           PyList(existing.v.items \o ufo_filters))

RECURSIVE Filter_write_all(_, _)
Filter_write_all(ufo_filters, P) ==
    IF ufo_filters = <<>> THEN P
    ELSE LET w == write_glyphs_filter(Head(ufo_filters))
         IN  Filter_write_all(Tail(ufo_filters),
                 set_custom_values(P, IF w.is_pre THEN <<"PreFilter">> ELSE <<"Filter">>,
                                   w.glyphs_filter))

Filter_to_glyphs(P) ==
    LET ufo_filters == get_lib_value(P, UFO2FT_FILTERS_KEY)
    IN  IF ufo_filters.v = None THEN ufo_filters.p
        ELSE Filter_write_all(ufo_filters.v.items, ufo_filters.p)

----------------------------------------------------------------------------
(* ReplaceFeatureParamHandler.  The feature patcher is outside this file:  *)
(* the patched text is kept as the old text followed by the replacement.   *)

replace_feature(tag, repl, text) == text \o <<"<">> \o tag \o <<"=">> \o repl \o <<">">>

\* re.split("\s*;\s*", value, 1): the place of the first ";", 0 if there is none
SplitPoint(text) ==
    IF \E i \in 1..Len(text) : text[i] = ";"
    THEN CHOOSE i \in 1..Len(text) : text[i] = ";" /\ \A j \in 1..(i - 1) : text[j] # ";"
    ELSE 0

RECURSIVE ReplaceFeature_each(_, _)
ReplaceFeature_each(values, P) ==
    IF values = <<>> \/ P.err THEN P
    ELSE LET value == Head(values).s
             at == SplitPoint(value)
             old == IF Truthy(P.features.text) THEN P.features.text.s ELSE <<>>
             new == replace_feature(SubSeq(value, 1, at - 1),
                                    SubSeq(value, at + 1, Len(value)), old)
         IN  IF at = 0 THEN [P EXCEPT !.err = TRUE]
             ELSE ReplaceFeature_each(Tail(values), [P EXCEPT !.features.text = PyStr(new)])

ReplaceFeature_to_ufo(P) ==
    LET read == get_custom_values(P, <<"Replace Feature">>)
    IN  ReplaceFeature_each(read.v.items, read.p)

ReplaceFeature_to_glyphs(P) == P

----------------------------------------------------------------------------
(* The two passes *)

\* handler.to_ufo(glyphs_proxy, ufo_proxy); an exception ends the loop
to_ufo(h, P) ==
    IF P.err THEN P
    ELSE CASE h.cls = "OS2SelectionParamHandler" -> OS2Selection_to_ufo(P)
           [] h.cls = "FilterParamHandler" -> Filter_to_ufo(P)
           [] h.cls = "ReplaceFeatureParamHandler" -> ReplaceFeature_to_ufo(P)
           [] OTHER -> ParamHandler_to_ufo(h, P)

\* handler.to_glyphs(glyphs_proxy, ufo_proxy)
to_glyphs(h, P) ==
    CASE h.cls = "OS2SelectionParamHandler" -> OS2Selection_to_glyphs(P)
      [] h.cls = "FilterParamHandler" -> Filter_to_glyphs(P)
      [] h.cls = "ReplaceFeatureParamHandler" -> ReplaceFeature_to_glyphs(P)
      [] OTHER -> ParamHandler_to_glyphs(h, P)

\* for handler in KNOWN_PARAM_HANDLERS[i:]: handler.to_ufo(...)
RECURSIVE HandlersToUfo(_, _)
HandlersToUfo(i, P) ==
    IF i > Len(KNOWN_PARAM_HANDLERS) THEN P
    ELSE HandlersToUfo(i + 1, to_ufo(KNOWN_PARAM_HANDLERS[i], P))

\* the proxies when the first n handlers of the loop have been called
RECURSIVE AfterHandlersToUfo(_, _)
AfterHandlersToUfo(n, P) ==
    IF n = 0 THEN P
    ELSE to_ufo(KNOWN_PARAM_HANDLERS[n], AfterHandlersToUfo(n - 1, P))

RECURSIVE HandlersToGlyphs(_, _)
HandlersToGlyphs(i, P) ==
    IF i > Len(KNOWN_PARAM_HANDLERS) THEN P
    ELSE HandlersToGlyphs(i + 1, to_glyphs(KNOWN_PARAM_HANDLERS[i], P))

DEFAULT_PARAMETERS ==
    << [glyphs_name |-> <<"fsType">>, ufo_name |-> <<"openTypeOS2Type">>,
        default_value |-> IntList(<<3>>)],
       [glyphs_name |-> <<"underlineThickness">>, ufo_name |-> <<"postscriptUnderlineThickness">>,
        default_value |-> PyInt(50)],
       [glyphs_name |-> <<"underlinePosition">>, ufo_name |-> <<"postscriptUnderlinePosition">>,
        default_value |-> PyInt(-100)] >>

\* one turn of the loop of _set_default_params
SetDefault(d, info) ==
    IF info[d.ufo_name] = None THEN [info EXCEPT ![d.ufo_name] = d.default_value] ELSE info

_set_default_params(info) ==
    SetDefault(DEFAULT_PARAMETERS[3],
        SetDefault(DEFAULT_PARAMETERS[2], SetDefault(DEFAULT_PARAMETERS[1], info)))

\* glyphs.customParameters, of the Glyphs classes outside this file:
\* name in customParameters
CustomParameters_contains(params, name) == \E i \in 1..Len(params) : params[i].name = name

FirstNamed(params, name) ==
    CHOOSE i \in 1..Len(params) : params[i].name = name /\ \A j \in 1..(i - 1) : params[j].name # name

\* customParameters[name]
CustomParameters_getitem(params, name) == params[FirstNamed(params, name)].value

\* del customParameters[name]
CustomParameters_delitem(params, name) ==
    LET at == FirstNamed(params, name)
    IN  SubSeq(params, 1, at - 1) \o SubSeq(params, at + 1, Len(params))

UnsetDefaultOnce_Keep(d, params) == params

\* one of the two if statements of the loop of _unset_default_params
UnsetDefaultOnce(d, params) ==
    IF /\ CustomParameters_contains(params, d.glyphs_name)
       /\ PyEq(CustomParameters_getitem(params, d.glyphs_name), d.default_value)
    THEN CustomParameters_delitem(params, d.glyphs_name)
    ELSE params

\* one turn of the loop of _unset_default_params
UnsetDefault(d, params) == UnsetDefaultOnce(d, UnsetDefaultOnce(d, params))

_unset_default_params(params) ==
    UnsetDefault(DEFAULT_PARAMETERS[3],
        UnsetDefault(DEFAULT_PARAMETERS[2], UnsetDefault(DEFAULT_PARAMETERS[1], params)))

UnhandledKey_NoSubKey(P, name) == CUSTOM_PARAM_PREFIX \o name

\* the lib key an unhandled custom parameter is copied to
UnhandledKey(P, name) == CUSTOM_PARAM_PREFIX \o sub_key(P) \o name

\* the loop over glyphs_proxy.unhandled_custom_parameters() in to_ufo_custom_params
RECURSIVE CopyUnhandledParams(_, _)
CopyUnhandledParams(unhandled, P) ==
    IF unhandled = <<>> THEN P
    ELSE LET name == _normalize_custom_param_name(Head(unhandled).name)
         IN  CopyUnhandledParams(Tail(unhandled),
                 [P EXCEPT !.lib = LibSet(@, UnhandledKey(P, name), Head(unhandled).value)])

\* to_ufo_custom_params; an exception leaves what was written so far
to_ufo_custom_params(u, glyphs_object) ==
    LET P == HandlersToUfo(1, Proxies(glyphs_object, u))
        Q == CopyUnhandledParams(unhandled_custom_parameters(P), P)
    IN  IF P.err THEN P ELSE [Q EXCEPT !.info = _set_default_params(@)]

CopyUnhandledLibItem_AnyKind(item, P) ==
    set_custom_value(P, Strip(_normalize_custom_param_name(item.key), CUSTOM_PARAM_PREFIX),
                     item.value)

\* one turn of the loop over ufo_proxy.unhandled_lib_items()
CopyUnhandledLibItem(item, P) ==
    LET prefix == CUSTOM_PARAM_PREFIX \o sub_key(P)
        name == _normalize_custom_param_name(item.key)
    IN  IF ~StartsWith(name, prefix) THEN P
        ELSE set_custom_value(P, Strip(name, prefix), item.value)

\* the loop over ufo_proxy.unhandled_lib_items() in to_glyphs_custom_params
RECURSIVE CopyUnhandledLibItems(_, _)
CopyUnhandledLibItems(unhandled, P) ==
    IF unhandled = <<>> THEN P
    ELSE CopyUnhandledLibItems(Tail(unhandled), CopyUnhandledLibItem(Head(unhandled), P))

to_glyphs_custom_params(u, glyphs_object) ==
    LET P == HandlersToGlyphs(1, Proxies(glyphs_object, u))
        Q == CopyUnhandledLibItems(unhandled_lib_items(P), P)
    IN  [Q EXCEPT !.params = _unset_default_params(@)]

----------------------------------------------------------------------------
(* GASP Table.  The dict is a sequence of items in insertion order, a key  *)
(* or a value of the Glyphs side is a string of digits.                    *)

Digits == <<"0", "1", "2", "3", "4", "5", "6", "7", "8", "9">>

DigitOf(c) == (CHOOSE i \in 1..Len(Digits) : Digits[i] = c) - 1

\* int(text), text a string of digits
RECURSIVE int(_)
int(text) ==
    IF text = <<>> THEN 0
    ELSE 10 * int(SubSeq(text, 1, Len(text) - 1)) + DigitOf(text[Len(text)])

\* the bit list codec is outside this file: the positions of the ones of the
\* number written in decimal, from the right
RECURSIVE OnesFrom(_, _)
OnesFrom(n, position) ==
    IF n = 0 THEN <<>>
    ELSE (IF n % 10 = 1 THEN <<position>> ELSE <<>>) \o OnesFrom(n \div 10, position + 1)

bin_to_int_list(value) == OnesFrom(value, 0)

\* d[k] = v
DictSet(d, k, v) ==
    IF \E i \in 1..Len(d) : d[i].k = k
    THEN [i \in 1..Len(d) |-> IF d[i].k = k THEN [k |-> k, v |-> v] ELSE d[i]]
    ELSE Append(d, [k |-> k, v |-> v])

\* {int(k): int(v) for k, v in value.items()}
RECURSIVE IntItems(_)
IntItems(items) ==
    IF items = <<>> THEN <<>>
    ELSE DictSet(IntItems(SubSeq(items, 1, Len(items) - 1)),
                 int(items[Len(items)].k), int(items[Len(items)].v))

sorted_AsInserted(d) == d

\* sorted(value.items()), the keys being distinct ints
RECURSIVE sorted(_)
sorted(d) ==
    IF d = <<>> THEN <<>>
    ELSE LET least == CHOOSE i \in 1..Len(d) : \A j \in 1..Len(d) : d[i].k <= d[j].k
         IN  <<d[least]>> \o sorted(SubSeq(d, 1, least - 1) \o SubSeq(d, least + 1, Len(d)))

to_ufo_gasp_table(value) ==
    LET items == sorted(IntItems(value))
    IN  [i \in 1..Len(items) |->
            [rangeMaxPPEM |-> items[i].k, rangeGaspBehavior |-> bin_to_int_list(items[i].v)]]

----------------------------------------------------------------------------
(* The objects *)

\* two Glyphs objects to translate from, and two new ones to translate to
Objs == {"font", "master", "font_rt", "master_rt"}

ClassOf(o) == IF o \in {"font", "font_rt"} THEN "GSFont" ELSE "GSFontMaster"

\* the attributes (of those the kept MiscParamHandlers name) each class has
NewAttrs(cls) ==
    IF cls = "GSFont" THEN [a \in {<<"disablesNiceNames">>} |-> False]
    ELSE [a \in {<<"weightValue">>} |-> PyInt(100)]

NewObject(cls) == [cls |-> cls, customParameters |-> <<>>, attrs |-> NewAttrs(cls)]

NewUfo == [info |-> [a \in INFO_ATTRS |-> None], lib |-> <<>>, features |-> [text |-> None]]

Init ==
    /\ objs = [o \in Objs |-> NewObject(ClassOf(o))]
    /\ ufo = NewUfo
    /\ log = <<>>
    /\ prev = [objs |-> [o \in Objs |-> NewObject(ClassOf(o))], ufo |-> NewUfo]
    /\ handled = [glyphs |-> {}, ufo |-> {}]
    /\ raised = FALSE
    /\ edits = 0
    /\ gasp_in = <<>>
    /\ gasp_out = <<>>

----------------------------------------------------------------------------
(* Actions.  The objects are filled in first, then translated. *)

TotalParams ==
    Len(objs["font"].customParameters) + Len(objs["master"].customParameters)
    + Len(objs["font_rt"].customParameters) + Len(objs["master_rt"].customParameters)

\* glyphs_object.customParameters.append(param), by the caller
AddParam(o, param) ==
    /\ log = <<>>
    /\ TotalParams < MaxParams
    /\ objs' = [objs EXCEPT ![o].customParameters = Append(@, param)]
    /\ UNCHANGED <<ufo, log, prev, handled, raised, edits, gasp_in, gasp_out>>

\* ufo.info.<name> = value, by the caller
SetInfo(name, value) ==
    /\ log = <<>>
    /\ edits < MaxUfoEdits
    /\ ufo' = [ufo EXCEPT !.info[name] = value]
    /\ edits' = edits + 1
    /\ UNCHANGED <<objs, log, prev, handled, raised, gasp_in, gasp_out>>

\* ufo.lib[key] = value, by the caller
SetLib(key, value) ==
    /\ log = <<>>
    /\ edits < MaxUfoEdits
    /\ ufo' = [ufo EXCEPT !.lib = LibSet(@, key, value)]
    /\ edits' = edits + 1
    /\ UNCHANGED <<objs, log, prev, handled, raised, gasp_in, gasp_out>>

\* what a call leaves behind: P is the state of the call when it ended
CalledUpTo(bound, op, o, h, P) ==
    /\ Len(log) < bound
    /\ objs' = [objs EXCEPT ![o] = [cls |-> P.cls, customParameters |-> P.params,
                                    attrs |-> P.attrs]]
    /\ ufo' = [info |-> P.info, lib |-> P.lib, features |-> P.features]
    /\ log' = Append(log, [op |-> op, obj |-> o, h |-> h])
    /\ prev' = [objs |-> objs, ufo |-> ufo]
    /\ handled' = [glyphs |-> P.ghandled, ufo |-> P.uhandled]
    /\ raised' = P.err
    /\ UNCHANGED <<edits, gasp_in, gasp_out>>

Called(op, o, h, P) == CalledUpTo(MaxCalls, op, o, h, P)

ToUfo(o) == Called("to_ufo", o, 0, to_ufo_custom_params(ufo, objs[o]))

ToGlyphs(o) == Called("to_glyphs", o, 0, to_glyphs_custom_params(ufo, objs[o]))

\* to_ufo_custom_params and to_glyphs_custom_params where objects of two
\* classes share one UFO
KindToUfo(o) == CalledUpTo(MaxKindCalls, "to_ufo", o, 0, to_ufo_custom_params(ufo, objs[o]))

KindToGlyphs(o) ==
    CalledUpTo(MaxKindCalls, "to_glyphs", o, 0, to_glyphs_custom_params(ufo, objs[o]))

\* the handlers that are called alone: a ParamHandler with a long name, the
\* same with glyphs_multivalued, and the OS2SelectionParamHandler
TestHandlers ==
    << ShortLong(<<"underlineThickness">>, <<"postscriptUnderlineThickness">>),
       [ShortLong(<<"underlineThickness">>, <<"postscriptUnderlineThickness">>)
            EXCEPT !.glyphs_multivalued = TRUE],
       [ParamHandler(<<>>) EXCEPT !.cls = "OS2SelectionParamHandler"] >>

\* handler.to_ufo(glyphs_proxy, ufo_proxy), on new proxies
HandlerToUfo(o, i) ==
    Called("handler.to_ufo", o, i, to_ufo(TestHandlers[i], Proxies(objs[o], ufo)))

\* _set_default_params(ufo)
SetDefaultParams(o) ==
    Called("_set_default_params", o, 0,
           [Proxies(objs[o], ufo) EXCEPT !.info = _set_default_params(@)])

\* _unset_default_params(glyphs)
UnsetDefaultParams(o) ==
    Called("_unset_default_params", o, 0,
           [Proxies(objs[o], ufo) EXCEPT !.params = _unset_default_params(@)])

\* value[k] = v on the dict of a GASP Table parameter, k a new key
GaspPut(k, v) ==
    /\ log = <<>>
    /\ Len(gasp_in) < MaxGasp
    /\ \A i \in 1..Len(gasp_in) : gasp_in[i].k # k
    /\ gasp_in' = Append(gasp_in, [k |-> k, v |-> v])
    /\ UNCHANGED <<objs, ufo, log, prev, handled, raised, edits, gasp_out>>

\* to_ufo_gasp_table(value)
GaspToUfo ==
    /\ log = <<>>
    /\ gasp_out' = to_ufo_gasp_table(gasp_in)
    /\ log' = <<[op |-> "to_ufo_gasp_table", obj |-> "font", h |-> 0]>>
    /\ UNCHANGED <<objs, ufo, prev, handled, raised, edits, gasp_in>>

----------------------------------------------------------------------------
(* Spec: objects with custom parameters are translated to the UFO and the  *)
(* UFO to new objects.                                                     *)

FontParams ==
    { Param(<<"Foo Bar">>, PyStr(<<"baz">>)),
      Param(<<"Foo Bar">>, PyStr(<<"qux">>)),
      Param(<<"Foo", "u2019", "s">>, PyInt(1)),
      Param(<<"fsType">>, IntList(<<2>>)),
      Param(<<"openTypeOS2Type">>, IntList(<<1>>)),
      Param(<<"Has WWS Names">>, True),
      Param(<<"Replace Feature">>, PyStr(<<"liga", ";", "sub f i by fi">>)),
      Param(<<"useNiceNames">>, PyInt(0)) }

MasterParams == { Param(<<"Foo Bar">>, PyStr(<<"qux">>)) }

Next ==
    \/ \E param \in FontParams : AddParam("font", param)
    \/ \E param \in MasterParams : AddParam("master", param)
    \/ \E o \in {"font", "master"} : ToUfo(o)
    \/ \E o \in {"font_rt", "master_rt"} : ToGlyphs(o)

Spec == Init /\ [][Next]_vars

----------------------------------------------------------------------------
(* SpecUfo: a UFO filled in by hand is translated to objects, new or not.  *)

CustomKey(rest) == CUSTOM_PARAM_PREFIX \o rest

InfoInputs ==
    { <<<<"openTypeOS2Type">>, IntList(<<3>>)>>,
      <<<<"openTypeOS2Type">>, IntList(<<5>>)>>,
      <<<<"postscriptUnderlineThickness">>, PyInt(50)>>,
      <<<<"postscriptUnderlineThickness">>, PyInt(60)>> }

LibInputs ==
    { <<CustomKey(<<"GSFont", ".", "Foo Bar">>), PyStr(<<"baz">>)>>,
      <<CustomKey(<<"GSFontMaster", ".", "Foo Bar">>), PyStr(<<"qux">>)>>,
      <<CustomKey(<<"Foo Bar">>), PyStr(<<"old">>)>>,
      <<CustomKey(<<"GSFont", ".", "Foo", "u2019", "s">>), PyInt(1)>>,
      <<CustomKey(<<"GSFont", ".", "fsType">>), IntList(<<3>>)>>,
      <<CustomKey(<<"GSFont", ".", "fsType">>), IntList(<<5>>)>>,
      <<CustomKey(<<"GSFont", ".", "useNiceNames">>), PyInt(0)>> }

TargetParams == { Param(<<"fsType">>, IntList(<<5>>)) }

NextUfo ==
    \/ \E input \in InfoInputs : SetInfo(input[1], input[2])
    \/ \E input \in LibInputs : SetLib(input[1], input[2])
    \/ \E param \in TargetParams : AddParam("font_rt", param)
    \/ \E o \in {"font_rt", "master_rt"} : ToGlyphs(o)

SpecUfo == Init /\ [][NextUfo]_vars

----------------------------------------------------------------------------
(* SpecHandler: one handler is called alone.                               *)

HandlerParams ==
    { Param(<<"underlineThickness">>, PyInt(60)),
      Param(<<"postscriptUnderlineThickness">>, PyInt(70)),
      Param(<<"Has WWS Names">>, True),
      Param(<<"Has WWS Names">>, False),
      Param(<<"Use Typo Metrics">>, True) }

SelectionInputs == { IntList(<<>>), IntList(<<0>>), IntList(<<7>>), IntList(<<0, 8>>) }

NextHandler ==
    \/ \E param \in HandlerParams : AddParam("font", param)
    \/ \E selection \in SelectionInputs : SetInfo(OS2Selection, selection)
    \/ \E i \in 1..Len(TestHandlers) : HandlerToUfo("font", i)

SpecHandler == Init /\ [][NextHandler]_vars

----------------------------------------------------------------------------
(* SpecDefaults: the defaults are set and unset.                           *)

DefaultsParams ==
    { Param(<<"underlineThickness">>, PyInt(50)),
      Param(<<"underlineThickness">>, PyInt(60)),
      Param(<<"fsType">>, IntList(<<3>>)),
      Param(<<"underlinePosition">>, PyInt(-100)) }

DefaultsInputs ==
    { <<<<"openTypeOS2Type">>, IntList(<<3>>)>>,
      <<<<"openTypeOS2Type">>, IntList(<<5>>)>>,
      <<<<"postscriptUnderlineThickness">>, PyInt(60)>> }

NextDefaults ==
    \/ \E param \in DefaultsParams : AddParam("font", param)
    \/ \E input \in DefaultsInputs : SetInfo(input[1], input[2])
    \/ SetDefaultParams("font")
    \/ UnsetDefaultParams("font")

SpecDefaults == Init /\ [][NextDefaults]_vars

----------------------------------------------------------------------------
(* SpecGasp: a GASP Table is converted.                                    *)

GaspKeys == { <<"2", "0">>, <<"4", "0">>, <<"1", "0", "0">>, <<"0", "2", "0">> }

GaspValues == { <<"1", "1", "0", "0", "0", "0", "0", "0">>, <<"0", "0", "0", "0", "0", "0", "1", "1">> }

NextGasp ==
    \/ \E k \in GaspKeys, v \in GaspValues : GaspPut(k, v)
    \/ GaspToUfo

SpecGasp == Init /\ [][NextGasp]_vars

----------------------------------------------------------------------------
(* SpecKinds: a font and a master are translated to one UFO, and that UFO  *)
(* to a new font and a new master.                                         *)

KindParams(o) ==
    { Param(<<"Foo Bar">>, IF o = "font" THEN PyStr(<<"baz">>) ELSE PyStr(<<"qux">>)),
      Param(<<"useNiceNames">>, IF o = "font" THEN PyInt(0) ELSE PyInt(5)),
      Param(<<"Has WWS Names">>, True) }

NextKinds ==
    \/ \E o \in {"font", "master"} : \E param \in KindParams(o) : AddParam(o, param)
    \/ \E o \in {"font", "master"} : KindToUfo(o)
    \/ \E o \in {"font_rt", "master_rt"} : KindToGlyphs(o)

SpecKinds == Init /\ [][NextKinds]_vars

----------------------------------------------------------------------------
(* SpecFrame: a font with a parameter of every handler kind is translated  *)
(* to a UFO that may hold values already, and that UFO to a new font.      *)

FrameParams ==
    { Param(<<"fsType">>, IntList(<<2>>)),
      Param(<<"Has WWS Names">>, True),
      Param(<<"Filter">>, PyStr(<<"f">>)),
      Param(<<"Replace Feature">>, PyStr(<<"liga", ";", "sub f i by fi">>)),
      Param(<<"Foo Bar">>, PyStr(<<"baz">>)) }

FrameInfoInputs == { <<OS2Selection, IntList(<<7>>)>> }

FrameLibInputs ==
    { <<UFO2FT_FILTERS_KEY, PyList(<<parse_glyphs_filter(PyStr(<<"p">>), TRUE)>>)>>,
      <<CustomKey(<<"GSFont", ".", "Foo Bar">>), PyStr(<<"old">>)>> }

NextFrame ==
    \/ \E param \in FrameParams : AddParam("font", param)
    \/ \E input \in FrameInfoInputs : SetInfo(input[1], input[2])
    \/ \E input \in FrameLibInputs : SetLib(input[1], input[2])
    \/ ToUfo("font")
    \/ ToGlyphs("font_rt")

SpecFrame == Init /\ [][NextFrame]_vars

----------------------------------------------------------------------------
(* Vocabulary of the properties *)

Call(op, o) == [op |-> op, obj |-> o, h |-> 0]

LastCall == log[Len(log)]

\* the last call was op on object o
Last(op, o) == log # <<>> /\ LastCall = Call(op, o)

\* object src was translated into a new UFO and that UFO into the new object rt
RoundTrip(src, rt) == edits = 0 /\ log = <<Call("to_ufo", src), Call("to_glyphs", rt)>>

\* a source object and the new object of its class
Pairs == {<<"font", "font_rt">>, <<"master", "master_rt">>}

Count(params, name) == Len(SelectSeq(params, LAMBDA q : q.name = name))

Has(params, name, value) == \E i \in 1..Len(params) : params[i] = Param(name, value)

Handlers == {KNOWN_PARAM_HANDLERS[i] : i \in 1..Len(KNOWN_PARAM_HANDLERS)}

\* the handlers that read custom parameters the ParamHandler way
Generic == {h \in Handlers : h.cls \in {"ParamHandler", "EmptyListDefaultParamHandler"}}

FlagNames == {flags[i].glyphs_name : i \in 1..Len(flags)}

\* the parameter names some registered handler reads
ShortNames == {h.glyphs_name : h \in Generic}

LongNames == {h.glyphs_long_name : h \in Generic} \ {NoName}

SingleValuedNames ==
    {h.glyphs_name : h \in {g \in Generic : ~g.glyphs_multivalued}}
    \cup ({h.glyphs_long_name : h \in {g \in Generic : ~g.glyphs_multivalued}} \ {NoName})
    \cup FlagNames

ReadNames ==
    ShortNames \cup LongNames \cup FlagNames
    \cup {<<"PreFilter">>, <<"Filter">>, <<"Replace Feature">>}

\* no single-valued field is there twice
Consistent(params) == \A name \in SingleValuedNames : Count(params, name) <= 1

\* the short name a long alias stands for
ShortOf(name) ==
    IF name \in LongNames
    THEN (CHOOSE h \in Generic : h.glyphs_long_name = name).glyphs_name
    ELSE name

\* a name with its quotes and its alias normalized
Canonical(name) == ShortOf(_normalize_custom_param_name(name))

\* the lib key a parameter of object o with this name is copied to
UnhandledKeyOf(o, name) ==
    CUSTOM_PARAM_PREFIX \o <<ClassOf(o), ".">> \o _normalize_custom_param_name(name)

\* the parameter is one the default retraction removes
Retracted(param) ==
    \E i \in 1..Len(DEFAULT_PARAMETERS) :
        /\ Canonical(param.name) = DEFAULT_PARAMETERS[i].glyphs_name
        /\ PyEq(param.value, DEFAULT_PARAMETERS[i].default_value)

----------------------------------------------------------------------------
(* C1 *)

\* C1 (as claimed): after to_ufo_custom_params into a new UFO and
\* to_glyphs_custom_params into a new object of the same class, every
\* parameter of a consistent object that the default retraction does not
\* remove is there again, with the same value and the same name up to quote
\* and alias normalization.
C1_RoundTripReproduces ==
    \A pair \in Pairs :
        RoundTrip(pair[1], pair[2]) /\ Consistent(objs[pair[1]].customParameters) =>
            \A i \in 1..Len(objs[pair[1]].customParameters) :
                LET param == objs[pair[1]].customParameters[i]
                    back == objs[pair[2]].customParameters
                IN  ~Retracted(param) =>
                        \E j \in 1..Len(back) :
                            /\ Canonical(back[j].name) = Canonical(param.name)
                            /\ back[j].value = param.value

----------------------------------------------------------------------------
(* C8 *)

\* C8 (as claimed): after the round trip no parameter of the result is
\* named by the long alias of a registered handler.
C8_LongAliasNeverReintroduced ==
    \A pair \in Pairs :
        RoundTrip(pair[1], pair[2]) =>
            \A j \in 1..Len(objs[pair[2]].customParameters) :
                objs[pair[2]].customParameters[j].name \notin LongNames

----------------------------------------------------------------------------
(* C2 *)

\* the UFO names of the handlers that keep their value in the lib under
\* CUSTOM_PARAM_PREFIX + sub_key
LibStoredUfoNames ==
    {h.ufo_name : h \in {g \in Handlers :
        /\ g.cls \in {"ParamHandler", "EmptyListDefaultParamHandler", "MiscParamHandler"}
        /\ g.ufo_prefix = CUSTOM_PARAM_PREFIX
        /\ ~(g.ufo_info /\ g.ufo_name \in INFO_ATTRS)}}

\* the parameters whose name, quotes normalized, is name
CountNormalized(params, name) ==
    Len(SelectSeq(params, LAMBDA q : _normalize_custom_param_name(q.name) = name))

\* C2 (as claimed): after the round trip, every parameter whose name no
\* registered handler reads is in the result with exactly its name and value.
C2_UnknownPassthroughExact ==
    \A pair \in Pairs :
        RoundTrip(pair[1], pair[2]) =>
            \A i \in 1..Len(objs[pair[1]].customParameters) :
                LET param == objs[pair[1]].customParameters[i]
                IN  param.name \notin ReadNames =>
                        Has(objs[pair[2]].customParameters, param.name, param.value)

\* C2 (amended): after the round trip of a consistent object, every
\* parameter whose name no registered handler reads is in the result with
\* its value and its name, curved quotes made straight, provided that no
\* other parameter of the object has the same normalized name and that the
\* name is not the UFO name of a handler that keeps its value in the lib.
C2_UnknownPassthrough ==
    \A pair \in Pairs :
        RoundTrip(pair[1], pair[2]) /\ Consistent(objs[pair[1]].customParameters) =>
            \A i \in 1..Len(objs[pair[1]].customParameters) :
                LET param == objs[pair[1]].customParameters[i]
                    name == _normalize_custom_param_name(param.name)
                IN  /\ param.name \notin ReadNames
                    /\ CountNormalized(objs[pair[1]].customParameters, name) = 1
                    /\ name \notin LibStoredUfoNames
                    => Has(objs[pair[2]].customParameters, name, param.value)

\* an unread parameter went through the round trip, and one with a curved quote
C2_Witness ==
    /\ RoundTrip("font", "font_rt")
    /\ Has(objs["font"].customParameters, <<"Foo Bar">>, PyStr(<<"baz">>))
    /\ Has(objs["font_rt"].customParameters, <<"Foo Bar">>, PyStr(<<"baz">>))
    /\ Has(objs["font"].customParameters, <<"Foo", "u2019", "s">>, PyInt(1))
    /\ Has(objs["font_rt"].customParameters, <<"Foo", "'", "s">>, PyInt(1))

----------------------------------------------------------------------------
(* C4 *)

\* the value get_custom_value gives for a name that is there at most once
SingleValue(params, name) ==
    IF Count(params, name) = 0 THEN None
    ELSE params[CHOOSE i \in 1..Len(params) : params[i].name = name].value

\* the names handler h looks up with get_custom_value in an object
SingleLookups(h, params) ==
    CASE h.cls \in {"ParamHandler", "EmptyListDefaultParamHandler"} /\ ~h.glyphs_multivalued ->
            {h.glyphs_name} \cup
            (IF /\ h.glyphs_long_name # NoName
                /\ Count(params, h.glyphs_name) <= 1
                /\ SingleValue(params, h.glyphs_name) = None
             THEN {h.glyphs_long_name} ELSE {})
      [] h.cls = "OS2SelectionParamHandler" -> FlagNames
      [] OTHER -> {}

\* every name handler h may look up
LookupNames(h) ==
    CASE h.cls \in {"ParamHandler", "EmptyListDefaultParamHandler"} ->
            {h.glyphs_name, h.glyphs_long_name} \ {NoName}
      [] h.cls = "OS2SelectionParamHandler" -> FlagNames
      [] h.cls = "FilterParamHandler" -> {<<"PreFilter">>, <<"Filter">>}
      [] h.cls = "ReplaceFeatureParamHandler" -> {<<"Replace Feature">>}
      [] OTHER -> {}

\* handler i finds a single-valued name twice
Fails(i, params) ==
    \E name \in SingleLookups(KNOWN_PARAM_HANDLERS[i], params) : Count(params, name) > 1

\* the first handler that does, 0 if none
FirstFailing(params) ==
    IF \E i \in 1..Len(KNOWN_PARAM_HANDLERS) : Fails(i, params)
    THEN CHOOSE i \in 1..Len(KNOWN_PARAM_HANDLERS) :
            Fails(i, params) /\ \A j \in 1..(i - 1) : ~Fails(j, params)
    ELSE 0

\* the value handler h finds in the object, None if none
ValueFound(h, obj) ==
    IF h.cls = "MiscParamHandler"
    THEN (IF h.glyphs_name \in DOMAIN obj.attrs THEN obj.attrs[h.glyphs_name] ELSE None)
    ELSE IF SingleValue(obj.customParameters, h.glyphs_name) # None
    THEN SingleValue(obj.customParameters, h.glyphs_name)
    ELSE IF h.glyphs_long_name # NoName
    THEN SingleValue(obj.customParameters, h.glyphs_long_name)
    ELSE None

\* where handler h keeps its value in the UFO, for an object of class cls
InInfo(h) == h.ufo_info /\ h.ufo_name \in INFO_ATTRS

KeyFor(h, cls) ==
    IF h.ufo_prefix = CUSTOM_PARAM_PREFIX
    THEN CUSTOM_PARAM_PREFIX \o <<cls, ".">> \o h.ufo_name
    ELSE h.ufo_prefix \o h.ufo_name

\* the value the UFO u holds for handler h, None if none
Stored(u, h, cls) ==
    IF InInfo(h) THEN u.info[h.ufo_name]
    ELSE IF KeyFor(h, cls) \in LibKeys(u.lib) THEN LibGet(u.lib, KeyFor(h, cls))
    ELSE None

\* no other handler writes where h writes
OnlyWriter(h) == \A g \in Handlers \ {h} : g.ufo_name # h.ufo_name

\* the single-valued names a handler is registered to read, looked up or not
SingleNames(h) ==
    CASE h.cls \in {"ParamHandler", "EmptyListDefaultParamHandler"} /\ ~h.glyphs_multivalued ->
            {h.glyphs_name, h.glyphs_long_name} \ {NoName}
      [] h.cls = "OS2SelectionParamHandler" -> FlagNames
      [] OTHER -> {}

\* the first handler one of whose single-valued names is there twice, 0 if none
FirstDuplicated(params) ==
    LET twice(i) == \E name \in SingleNames(KNOWN_PARAM_HANDLERS[i]) : Count(params, name) > 1
    IN  IF \E i \in 1..Len(KNOWN_PARAM_HANDLERS) : twice(i)
        THEN CHOOSE i \in 1..Len(KNOWN_PARAM_HANDLERS) :
                twice(i) /\ \A j \in 1..(i - 1) : ~twice(j)
        ELSE 0

\* the last call, to_ufo_custom_params of object o, raised in handler f: the
\* handlers after f have not run, no unhandled parameter was copied to the
\* lib, no default was set, and what the handlers before f wrote is in the UFO
AbortedAt(o, f) ==
    LET obj == objs[o]
        params == obj.customParameters
    IN  /\ raised
        /\ \A j \in (f + 1)..Len(KNOWN_PARAM_HANDLERS) :
                LookupNames(KNOWN_PARAM_HANDLERS[j]) \cap handled.glyphs = {}
        /\ ufo.features = prev.ufo.features
        /\ \A i \in 1..Len(params) :
                LET key == CUSTOM_PARAM_PREFIX \o <<obj.cls, ".">>
                               \o _normalize_custom_param_name(params[i].name)
                IN  /\ params[i].name \notin ReadNames \cup LibStoredUfoNames
                    /\ key \notin LibKeys(prev.ufo.lib)
                    => key \notin LibKeys(ufo.lib)
        /\ \A i \in 1..Len(DEFAULT_PARAMETERS) :
                LET d == DEFAULT_PARAMETERS[i]
                IN  /\ prev.ufo.info[d.ufo_name] = None
                    /\ Count(params, d.glyphs_name) = 0
                    /\ Count(params, d.ufo_name) = 0
                    => ufo.info[d.ufo_name] = None
        /\ \A j \in 1..(f - 1) :
                LET h == KNOWN_PARAM_HANDLERS[j]
                IN  /\ h.cls \in {"ParamHandler", "EmptyListDefaultParamHandler",
                                  "MiscParamHandler"}
                    /\ ValueFound(h, obj) # None
                    /\ OnlyWriter(h)
                    => Stored(ufo, h, obj.cls) = Apply(h.value_to_ufo, ValueFound(h, obj))

\* C4 (as claimed): when the object has more than one parameter under a name
\* that a single-valued handler reads, to_ufo_custom_params raises in that
\* handler; the handlers after it have not run, no unhandled parameter was
\* copied to the lib, no default was set, and what the handlers before it
\* wrote is in the UFO.
C4_DuplicateAlwaysAborts ==
    \A o \in {"font", "master"} :
        Last("to_ufo", o) /\ FirstDuplicated(objs[o].customParameters) > 0 =>
            AbortedAt(o, FirstDuplicated(objs[o].customParameters))

\* C4 (amended): when the object has more than one parameter under a name
\* that a single-valued handler looks up (its short name, its long name only
\* if there is no value under the short name, or a flag name),
\* to_ufo_custom_params raises in that handler; the handlers after it have
\* not run, no unhandled parameter was copied to the lib, no default was
\* set, and what the handlers before it wrote is in the UFO.
C4_ConsistencyErrorAborts ==
    \A o \in {"font", "master"} :
        Last("to_ufo", o) /\ FirstFailing(objs[o].customParameters) > 0 =>
            AbortedAt(o, FirstFailing(objs[o].customParameters))

\* the flag handler raised after fsType was written, with an unread
\* parameter waiting and the defaults not yet set
C4_Witness ==
    /\ Last("to_ufo", "font")
    /\ raised
    /\ Count(objs["font"].customParameters, <<"Has WWS Names">>) = 2
    /\ Has(objs["font"].customParameters, <<"fsType">>, IntList(<<2>>))
    /\ ufo.info[<<"openTypeOS2Type">>] = IntList(<<2>>)
    /\ ufo.info[<<"postscriptUnderlineThickness">>] = None
    /\ <<"Replace Feature">> \notin handled.glyphs

----------------------------------------------------------------------------
(* C3 *)

\* the lib entries the sweep of the last to_glyphs_custom_params met
UnhandledItems ==
    SelectSeq(prev.ufo.lib, LAMBDA item : /\ StartsWith(item.key, CUSTOM_PARAM_PREFIX)
                                          /\ item.key \notin handled.ufo)

\* the key with the namespace stripped, and the sub-namespace of a class too
Stripped(key) ==
    LET rest == Strip(key, CUSTOM_PARAM_PREFIX)
    IN  IF StartsWith(rest, <<"GSFont", ".">>) THEN Strip(rest, <<"GSFont", ".">>)
        ELSE IF StartsWith(rest, <<"GSFontMaster", ".">>) THEN Strip(rest, <<"GSFontMaster", ".">>)
        ELSE rest

\* the UFO without the lib entry under key
LibWithout(u, key) == [u EXCEPT !.lib = SelectSeq(@, LAMBDA item : item.key # key)]

\* the object a call leaves
ObjectOf(P) == [cls |-> P.cls, customParameters |-> P.params, attrs |-> P.attrs]

\* the name and the value are a default of the table
IsDefault(name, value) ==
    \E i \in 1..Len(DEFAULT_PARAMETERS) :
        /\ name = DEFAULT_PARAMETERS[i].glyphs_name
        /\ PyEq(value, DEFAULT_PARAMETERS[i].default_value)

\* C3 (as claimed): after to_glyphs_custom_params, every lib entry whose key
\* starts with CUSTOM_PARAM_PREFIX and was not marked handled is a parameter
\* of the object, named by the key with the namespace and the class
\* sub-namespace, if there, stripped; none is skipped.
C3_EverySweptEntryAppended ==
    \A o \in {"font_rt", "master_rt"} :
        Last("to_glyphs", o) =>
            \A n \in 1..Len(UnhandledItems) :
                Has(objs[o].customParameters, Stripped(UnhandledItems[n].key),
                    UnhandledItems[n].value)

\* C3 (amended): after to_glyphs_custom_params, a lib entry that was not
\* marked handled and whose key, curved quotes made straight, starts with
\* CUSTOM_PARAM_PREFIX and the sub-namespace of the object's own class is a
\* parameter of the object, named by the rest of that key, unless name and
\* value are a default of the table; an unhandled entry in the namespace
\* but outside the sub-namespace of the object's class is skipped: the
\* object is what it would be without the entry.
C3_SweptEntryAppended ==
    \A o \in {"font_rt", "master_rt"} :
        Last("to_glyphs", o) =>
            \A n \in 1..Len(UnhandledItems) :
                LET item == UnhandledItems[n]
                    name == _normalize_custom_param_name(item.key)
                    prefix == CUSTOM_PARAM_PREFIX \o <<objs[o].cls, ".">>
                IN  IF StartsWith(name, prefix)
                    THEN \/ Has(objs[o].customParameters, Strip(name, prefix), item.value)
                         \/ IsDefault(Strip(name, prefix), item.value)
                    ELSE objs[o] = ObjectOf(to_glyphs_custom_params(
                                       LibWithout(prev.ufo, item.key), prev.objs[o]))

\* an entry of the font's sub-namespace became a parameter of the font, one
\* without a sub-namespace did not
C3_Witness ==
    /\ Last("to_glyphs", "font_rt")
    /\ LibKeys(prev.ufo.lib) = {CustomKey(<<"GSFont", ".", "Foo", "u2019", "s">>),
                                CustomKey(<<"Foo Bar">>)}
    /\ Len(UnhandledItems) = 2
    /\ objs["font_rt"].customParameters = <<Param(<<"Foo", "'", "s">>, PyInt(1))>>

----------------------------------------------------------------------------
(* C5 *)

HandlerCall(o, i) == [op |-> "handler.to_ufo", obj |-> o, h |-> i]

\* the bits of ufo.info.openTypeOS2Selection
Bits(u) ==
    LET selection == u.info[OS2Selection]
    IN  IF selection = None THEN {}
        ELSE {selection.items[i].n : i \in 1..Len(selection.items)}

\* C5: OS2SelectionParamHandler.to_ufo clears no bit of
\* ufo.info.openTypeOS2Selection, whatever the bits before and the flags of
\* the object, and adds no bit but 7 and 8.
C5_SelectionMonotonic ==
    log # <<>> /\ LastCall = HandlerCall("font", 3) =>
        /\ Bits(prev.ufo) \subseteq Bits(ufo)
        /\ Bits(ufo) \ Bits(prev.ufo) \subseteq {7, 8}

\* bit 0 was there, Has WWS Names added bit 8
C5_Witness ==
    /\ log # <<>> /\ LastCall = HandlerCall("font", 3)
    /\ Has(objs["font"].customParameters, <<"Has WWS Names">>, True)
    /\ Bits(prev.ufo) = {0}
    /\ Bits(ufo) = {0, 8}

----------------------------------------------------------------------------
(* C6 *)

\* C6 (as claimed): _set_default_params right after _set_default_params
\* changes nothing in the UFO, and _unset_default_params right after
\* _unset_default_params changes nothing in the object.
C6_DefaultsIdempotent ==
    /\ Last("_set_default_params", "font") => _set_default_params(ufo.info) = ufo.info
    /\ Last("_unset_default_params", "font") =>
            _unset_default_params(objs["font"].customParameters)
                = objs["font"].customParameters

----------------------------------------------------------------------------
(* C7 *)

\* the lib has an entry for name in the sub-namespace of class cls
HasCustomEntry(u, cls, name) ==
    \E key \in LibKeys(u.lib) :
        _normalize_custom_param_name(key) = CUSTOM_PARAM_PREFIX \o <<cls, ".">> \o name

\* C7 (as claimed): after to_glyphs_custom_params, for each default of the
\* table, the object has no parameter under the Glyphs name if the info
\* attribute is the default value, and has a parameter with the value of the
\* info attribute if that is another value.
C7_DefaultSuppressedAlways ==
    \A o \in {"font_rt", "master_rt"} : \A i \in 1..Len(DEFAULT_PARAMETERS) :
        LET d == DEFAULT_PARAMETERS[i]
            value == prev.ufo.info[d.ufo_name]
        IN  Last("to_glyphs", o) =>
                /\ PyEq(value, d.default_value) =>
                        Count(objs[o].customParameters, d.glyphs_name) = 0
                /\ value # None /\ ~PyEq(value, d.default_value) =>
                        Has(objs[o].customParameters, d.glyphs_name, value)

\* C7 (amended): after to_glyphs_custom_params, for each default of the
\* table, the object has a parameter with the value of the info attribute if
\* that is set and not the default value; it has no parameter under the
\* Glyphs name if the info attribute is the default value, provided that the
\* object had no parameter under that name before and the lib has no entry
\* for that name in the sub-namespace of the object's class.
C7_DefaultSuppressed ==
    \A o \in {"font_rt", "master_rt"} : \A i \in 1..Len(DEFAULT_PARAMETERS) :
        LET d == DEFAULT_PARAMETERS[i]
            value == prev.ufo.info[d.ufo_name]
        IN  Last("to_glyphs", o) =>
                /\ /\ PyEq(value, d.default_value)
                   /\ Count(prev.objs[o].customParameters, d.glyphs_name) = 0
                   /\ ~HasCustomEntry(prev.ufo, objs[o].cls, d.glyphs_name)
                   => Count(objs[o].customParameters, d.glyphs_name) = 0
                /\ value # None /\ ~PyEq(value, d.default_value) =>
                        Has(objs[o].customParameters, d.glyphs_name, value)

\* fsType was the default and is no parameter, underlineThickness was not
\* and is one
C7_Witness ==
    /\ Last("to_glyphs", "font_rt")
    /\ prev.ufo.info[<<"openTypeOS2Type">>] = IntList(<<3>>)
    /\ prev.ufo.info[<<"postscriptUnderlineThickness">>] = PyInt(60)
    /\ objs["font_rt"].customParameters = <<Param(<<"underlineThickness">>, PyInt(60))>>

----------------------------------------------------------------------------
(* C9 *)

\* what the getter of handler h returns for the values found under a name
Got(h, values) == IF h.glyphs_multivalued THEN PyList(values) ELSE values[1]

ValuesOf(params, name) ==
    LET hits == SelectSeq(params, LAMBDA param : param.name = name)
    IN  [i \in 1..Len(hits) |-> hits[i].value]

\* C9 (as claimed): ParamHandler.to_ufo, of a single-valued or a multivalued
\* handler, writes the transform of the value under the short name if there
\* is one, else that of the value under the long name, and writes nothing if
\* there is none under either.
C9_ShortLongPrecedence ==
    \A i \in {1, 2} :
        LET h == TestHandlers[i]
            params == objs["font"].customParameters
            short == ValuesOf(params, h.glyphs_name)
            long == ValuesOf(params, h.glyphs_long_name)
        IN  log # <<>> /\ LastCall = HandlerCall("font", i) /\ ~raised =>
                IF short # <<>>
                THEN Stored(ufo, h, "GSFont") = Apply(h.value_to_ufo, Got(h, short))
                ELSE IF long # <<>>
                THEN Stored(ufo, h, "GSFont") = Apply(h.value_to_ufo, Got(h, long))
                ELSE ufo = prev.ufo

----------------------------------------------------------------------------
(* C10 *)

GaspDone == log # <<>> /\ LastCall.op = "to_ufo_gasp_table"

Ascending(records) ==
    \A i \in 1..(Len(records) - 1) : records[i].rangeMaxPPEM < records[i + 1].rangeMaxPPEM

\* C10 (as claimed): to_ufo_gasp_table gives one record for each key of the
\* dict, in strictly ascending order of the numbers the keys stand for.
C10_OneRecordPerKey ==
    GaspDone =>
        /\ Len(gasp_out) = Len(gasp_in)
        /\ \A i \in 1..Len(gasp_in) :
                \E j \in 1..Len(gasp_out) : gasp_out[j].rangeMaxPPEM = int(gasp_in[i].k)
        /\ Ascending(gasp_out)

\* C10 (amended): to_ufo_gasp_table gives one record for each number a key
\* of the dict stands for (keys that stand for the same number share one
\* record, with the behavior of one of them), in strictly ascending order of
\* these numbers, whatever the order of the dict.
C10_OneRecordPerNumber ==
    GaspDone =>
        /\ {gasp_out[j].rangeMaxPPEM : j \in 1..Len(gasp_out)}
                = {int(gasp_in[i].k) : i \in 1..Len(gasp_in)}
        /\ \A j \in 1..Len(gasp_out) : \E i \in 1..Len(gasp_in) :
                /\ gasp_out[j].rangeMaxPPEM = int(gasp_in[i].k)
                /\ gasp_out[j].rangeGaspBehavior = bin_to_int_list(int(gasp_in[i].v))
        /\ Ascending(gasp_out)

\* the keys "40" and "20", in this order, gave the records of 20 and of 40
C10_Witness ==
    /\ GaspDone
    /\ gasp_in = << [k |-> <<"4", "0">>, v |-> <<"1", "1", "0", "0", "0", "0", "0", "0">>],
                    [k |-> <<"2", "0">>, v |-> <<"0", "0", "0", "0", "0", "0", "1", "1">>] >>
    /\ gasp_out = << [rangeMaxPPEM |-> 20, rangeGaspBehavior |-> <<0, 1>>],
                     [rangeMaxPPEM |-> 40, rangeGaspBehavior |-> <<6, 7>>] >>

----------------------------------------------------------------------------
(* C11 *)

\* call is one of the first k - 1 calls
Before(k, call) == \E j \in 1..(k - 1) : j <= Len(log) /\ log[j] = call

\* the parameter that is alone under its name in the object, if it is
Only(o, name) == SingleValue(objs[o].customParameters, name)

\* font and master each have one parameter under name, which no handler reads
\* or keeps in the lib, with two values, and neither translation raises
SharedName(name) ==
    /\ name \notin ReadNames \cup LibStoredUfoNames
    /\ \A o \in {"font", "master"} :
            /\ CountNormalized(objs[o].customParameters,
                               _normalize_custom_param_name(name)) = 1
            /\ Count(objs[o].customParameters, name) = 1
            /\ FirstFailing(objs[o].customParameters) = 0
    /\ Only("font", name) # Only("master", name)

KindKey(o, name) ==
    CUSTOM_PARAM_PREFIX \o <<ClassOf(o), ".">> \o _normalize_custom_param_name(name)

----------------------------------------------------------------------------
(* C12 *)

\* the names handler h looks up in a pass that reaches it and does not raise
\* in it: with get_custom_values a short name always has a value, a list
Lookups(h, params) ==
    CASE h.cls \in {"ParamHandler", "EmptyListDefaultParamHandler"} /\ h.glyphs_multivalued ->
            {h.glyphs_name}
      [] h.cls = "FilterParamHandler" -> {<<"PreFilter">>, <<"Filter">>}
      [] h.cls = "ReplaceFeatureParamHandler" -> {<<"Replace Feature">>}
      [] OTHER -> SingleLookups(h, params)

LookupsUpTo(n, params) ==
    UNION {Lookups(KNOWN_PARAM_HANDLERS[j], params) : j \in 1..n}

\* the parameters of the object of the last call whose name was not marked
Unmarked(o) ==
    SelectSeq(objs[o].customParameters, LAMBDA param : param.name \notin handled.glyphs)

\* the places of the unmarked parameters that go to key
PlacesFor(o, key) ==
    {i \in 1..Len(Unmarked(o)) : UnhandledKeyOf(o, Unmarked(o)[i].name) = key}

First(places) == CHOOSE i \in places : \A j \in places : i <= j

Latest(places) == CHOOSE i \in places : \A j \in places : j <= i

\* the lib keys the handlers write for an object of class cls
HandlerKeys(cls) ==
    {KeyFor(h, cls) : h \in {g \in Handlers : ~InInfo(g)}} \cup {UFO2FT_FILTERS_KEY}

\* C12: in to_ufo_custom_params the set of handled names only grows from
\* handler to handler; a name that was looked up is in it, with or without a
\* value found or written; when the pass ends without raising, the
\* parameters whose name is not in the set, and only these, have been copied
\* to the lib, in the order of the list, under CUSTOM_PARAM_PREFIX, the
\* sub_key of the object and the name with its quotes normalized.
C12_HandledAndSweepExact ==
    \A o \in {"font", "master"} :
        LET params == objs[o].customParameters
            start == Proxies(prev.objs[o], prev.ufo)
            last == Len(KNOWN_PARAM_HANDLERS)
            f == FirstFailing(params)
            swept == {UnhandledKeyOf(o, Unmarked(o)[i].name) : i \in 1..Len(Unmarked(o))}
            items == ufo.lib
        IN  Last("to_ufo", o) =>
            /\ \A n \in 1..last :
                    AfterHandlersToUfo(n - 1, start).ghandled
                        \subseteq AfterHandlersToUfo(n, start).ghandled
            /\ AfterHandlersToUfo(last, start).ghandled = handled.glyphs
            /\ IF raised
               THEN /\ LookupsUpTo(f - 1, params) \subseteq handled.glyphs
                    /\ handled.glyphs \subseteq LookupsUpTo(f, params)
               ELSE handled.glyphs = LookupsUpTo(last, params)
            /\ ~raised =>
                /\ \A key \in swept :
                        /\ key \in LibKeys(items)
                        /\ LibGet(items, key) = Unmarked(o)[Latest(PlacesFor(o, key))].value
                /\ \A i \in 1..Len(items) :
                        \/ items[i].key \in swept
                        \/ items[i].key \in HandlerKeys(objs[o].cls)
                        \/ /\ items[i].key \in LibKeys(prev.ufo.lib)
                           /\ items[i].value = LibGet(prev.ufo.lib, items[i].key)
                /\ \A i \in 1..Len(params) :
                        LET key == UnhandledKeyOf(o, params[i].name)
                        IN  /\ params[i].name \in handled.glyphs
                            /\ key \notin swept \cup HandlerKeys(objs[o].cls)
                            /\ key \notin LibKeys(prev.ufo.lib)
                            => key \notin LibKeys(items)
                /\ \A i \in 1..Len(items) : \A j \in (i + 1)..Len(items) :
                        /\ {items[i].key, items[j].key} \subseteq swept
                        /\ {items[i].key, items[j].key}
                               \cap (HandlerKeys(objs[o].cls) \cup LibKeys(prev.ufo.lib)) = {}
                        => First(PlacesFor(o, items[i].key)) < First(PlacesFor(o, items[j].key))

\* fsType was found and written, the underline names were looked up in vain,
\* and only the two parameters no handler looked up were copied, in order
C12_Witness ==
    /\ log = <<Call("to_ufo", "font")>>
    /\ objs["font"].customParameters
            = << Param(<<"Foo", "u2019", "s">>, PyInt(1)), Param(<<"fsType">>, IntList(<<2>>)),
                 Param(<<"Foo Bar">>, PyStr(<<"baz">>)) >>
    /\ {<<"fsType">>, <<"underlineThickness">>, <<"postscriptUnderlineThickness">>,
        <<"Filter">>} \subseteq handled.glyphs
    /\ <<"openTypeOS2Type">> \notin handled.glyphs
    /\ [i \in 1..Len(ufo.lib) |-> ufo.lib[i].key]
            = << CustomKey(<<"GSFont", ".", "useNiceNames">>),
                 CustomKey(<<"GSFont", ".", "Foo", "'", "s">>),
                 CustomKey(<<"GSFont", ".", "Foo Bar">>) >>

----------------------------------------------------------------------------
(* C13 *)

\* C13: a pass does not write to the side it reads: to_ufo_custom_params
\* leaves the custom parameters and the attributes of the object as they
\* were, and to_glyphs_custom_params leaves the info and the lib of the UFO
\* as they were, raising or not.
C13_SourceSideUntouched ==
    \A o \in Objs :
        /\ Last("to_ufo", o) => objs = prev.objs
        /\ Last("to_glyphs", o) => ufo.info = prev.ufo.info /\ ufo.lib = prev.ufo.lib

\* a UFO written by the handlers of every kind, by the sweep and by the
\* defaults was read into a new font by the handlers, the sweep and the
\* retraction of the defaults
C13_Witness ==
    /\ log = <<Call("to_ufo", "font"), Call("to_glyphs", "font_rt")>>
    /\ ~raised
    /\ ufo.info[OS2Selection] = IntList(<<7, 8>>)
    /\ ufo.info[<<"openTypeOS2Type">>] = IntList(<<3>>)
    /\ {UFO2FT_FILTERS_KEY, CustomKey(<<"GSFont", ".", "Foo Bar">>)} \subseteq LibKeys(ufo.lib)
    /\ LibGet(ufo.lib, UFO2FT_FILTERS_KEY)
            = PyList(<< parse_glyphs_filter(PyStr(<<"p">>), TRUE),
                        parse_glyphs_filter(PyStr(<<"f">>), FALSE) >>)
    /\ LibGet(ufo.lib, CustomKey(<<"GSFont", ".", "Foo Bar">>)) = PyStr(<<"baz">>)
    /\ objs["font"].customParameters
            = << Param(<<"Has WWS Names">>, True), Param(<<"Filter">>, PyStr(<<"f">>)),
                 Param(<<"Foo Bar">>, PyStr(<<"baz">>)) >>
    /\ Has(objs["font_rt"].customParameters, <<"Has WWS Names">>, True)
    /\ Has(objs["font_rt"].customParameters, <<"Use Typo Metrics">>, True)
    /\ Has(objs["font_rt"].customParameters, <<"PreFilter">>, PyStr(<<"p">>))
    /\ Has(objs["font_rt"].customParameters, <<"Filter">>, PyStr(<<"f">>))
    /\ Has(objs["font_rt"].customParameters, <<"Foo Bar">>, PyStr(<<"baz">>))
    /\ Count(objs["font_rt"].customParameters, <<"fsType">>) = 0

====
